---- MODULE Spec2Model ----
(***************************************************************************)
(* Model of YTDLPService (services/ytdlp/server.py): the aiohttp handlers  *)
(* extract_info, search and clear_cache, the periodic cleanup_cache, the   *)
(* in-memory cache dict and the ThreadPoolExecutor the blocking yt-dlp     *)
(* calls are run on.                                                       *)
(*                                                                         *)
(* The handlers are coroutines on one event loop: the code between two     *)
(* awaits runs without interleaving.  `await request.json()` touches no    *)
(* service state, so a handler's first step runs from the body parse to    *)
(* either its response or the run_in_executor submission.  The executor    *)
(* runs the submitted call on one of max_workers threads; the coroutine    *)
(* resumes in a later event-loop step once the call has returned.          *)
(***************************************************************************)
EXTENDS Integers, Sequences, FiniteSets, TLC

VARIABLES
    cache,          \* self.cache: dict cache_key -> {'data', 'timestamp'}
    request_count,  \* self.request_count
    error_count,    \* self.error_count
    now,            \* datetime.now(), in clock ticks
    req,            \* the handler coroutines in flight, by slot
    queue,          \* work items submitted to self.executor, not yet started
    running,        \* work items a worker thread is executing
    completed,      \* work items that returned, their coroutine not yet resumed
    last,           \* the response sent, or the cleanup line logged, last
    log,            \* history: responses sent so far, by route
    ext_calls       \* history: external yt-dlp calls that have returned

vars == <<cache, request_count, error_count, now, req, queue, running,
          completed, last, log, ext_calls>>

----------------------------------------------------------------------------
(* Bounds of the model *)

MaxInFlight == 2    \* handler coroutines alive at the same time
MaxRequests == 2    \* requests received in one behaviour
MaxTime == 2        \* the clock stops here
max_workers == 1    \* config 'max_workers'  (default 4)
cache_ttl == 1      \* config 'cache_ttl_hours' in clock ticks (default 24 h)

----------------------------------------------------------------------------
(* Values *)

NoneStr == "<None>"             \* Python None where a str is expected
None == [none |-> TRUE]         \* Python None where a dict is expected

DefaultFormat == "bestaudio/best"
DefaultMaxResults == 10

Slots == 1..MaxInFlight

\* request bodies the model feeds to the handlers; a key the body lacks
\* reads as None, as data.get(key) does
UrlInputs == {NoneStr, "", "a"}
FormatInputs == {NoneStr, "f1"}
QueryInputs == {NoneStr, "", "a"}
MaxResultsInputs == {1}
ExtractBodies == [url : UrlInputs, format : FormatInputs]
SearchBodies ==
    [query : QueryInputs, has_max_results : {TRUE},
     max_results : MaxResultsInputs]
    \cup [query : QueryInputs, has_max_results : {FALSE}, max_results : {0}]

\* a request is a body that parses as a JSON object, or one that does not
Parsed(bodies) == [json_ok : {TRUE}, data : bodies]
Malformed(bodies) == {[json_ok |-> FALSE, data |-> CHOOSE d \in bodies : TRUE]}

\* a variant of Falsy: only a missing value is rejected, "" is let through
Falsy_MissingOnly(x) == x = NoneStr

\* not x, for x a str or None
Falsy(x) == x = NoneStr \/ x = ""

\* what ydl.extract_info does inside a worker: it raises, returns nothing,
\* returns an info dict, returns a dict without 'entries', or returns a dict
\* with an 'entries' list (an entry is a video id, or None)
EntryLists == {<<>>, <<"v1">>, <<NoneStr, "v1">>}
NoOutcome == [kind |-> "none", entries |-> <<>>]
ExtractOutcomes ==
    {[kind |-> k, entries |-> <<>>, thumbnails |-> <<>>] :
        k \in {"raise", "empty", "info"}}
SearchOutcomes ==
    {[kind |-> k, entries |-> <<>>] : k \in {"raise", "empty", "noentries"}}
    \cup {[kind |-> "entries", entries |-> e] : e \in EntryLists}

Min(a, b) == IF a < b THEN a ELSE b
Max(a, b) == IF a > b THEN a ELSE b

\* a variant of Slice: one element too many
Slice_OneMore(s, n) ==
    IF n >= 0 THEN SubSeq(s, 1, Min(n + 1, Len(s)))
    ELSE SubSeq(s, 1, Max(0, Len(s) + n))

\* s[:n]
Slice(s, n) ==
    IF n >= 0 THEN SubSeq(s, 1, Min(n, Len(s)))
    ELSE SubSeq(s, 1, Max(0, Len(s) + n))

RECURSIVE Truthy(_)
\* [e for e in s if e]
Truthy(s) ==
    IF s = <<>> THEN <<>>
    ELSE IF Falsy(Head(s)) THEN Truthy(Tail(s))
    ELSE <<Head(s)>> \o Truthy(Tail(s))

----------------------------------------------------------------------------
(* Pure parts of the service *)

\* a variant of ExtractCacheKey: the format override is part of the key
ExtractCacheKey_WithFormat(data) ==
    "extract:" \o data.url \o ":" \o data.format

\* url = data.get('url'); cache_key = f"extract:{url}"
ExtractCacheKey(data) == "extract:" \o data.url

\* max_results = data.get('max_results', 10)
MaxResultsOf(data) ==
    IF data.has_max_results THEN data.max_results ELSE DefaultMaxResults

\* a variant of SearchCacheKey: nothing separates the query from the limit
SearchCacheKey_NoSeparator(data) ==
    "search:" \o data.query \o ToString(MaxResultsOf(data))

\* cache_key = f"search:{query}:{max_results}"
SearchCacheKey(data) ==
    "search:" \o data.query \o ":" \o ToString(MaxResultsOf(data))

\* a variant of IsFresh: the age of the entry is not looked at
IsFresh_NoExpiry(entry) == TRUE

\* datetime.now() - cache_entry['timestamp'] < self.cache_ttl
IsFresh(entry) == now - entry.timestamp < cache_ttl

\* cache_key in self.cache, and the entry is fresh
CacheHit(key) == key \in DOMAIN cache /\ IsFresh(cache[key])

\* a variant of CacheSet: the result is not stored
CacheSet_Dropped(key, data) == cache

\* a variant of CacheSet: an entry that exists is kept, the first writer wins
CacheSet_KeepFirst(key, data) ==
    IF key \in DOMAIN cache THEN cache
    ELSE [k \in DOMAIN cache \cup {key} |->
            IF k = key THEN [data |-> data, timestamp |-> now] ELSE cache[k]]

\* self.cache[cache_key] = {'data': data, 'timestamp': datetime.now()}
CacheSet(key, data) ==
    [k \in DOMAIN cache \cup {key} |->
        IF k = key THEN [data |-> data, timestamp |-> now] ELSE cache[k]]

\* opts['format'] of _extract_info_sync
EffectiveFormat(format_override) ==
    IF Falsy(format_override) THEN DefaultFormat ELSE format_override

\* a value of a thumbnail's 'width' or 'height': the key is absent, or it
\* is present and holds None or a number of pixels
Absent == [absent |-> TRUE]
Px(n) == [px |-> n]

\* x.get(key, default), value being what x holds under key
GetOr(value, default) == IF value = Absent THEN default ELSE value

TypeError == "<TypeError>"

\* key=lambda x: (x.get('width', 0), x.get('height', 0))
ThumbKey(x) == <<GetOr(x.width, Px(0)), GetOr(x.height, Px(0))>>

\* a < b raises for None against an int; equal components are skipped by
\* the tuple comparison and never reach <
DimRaises(a, b) == a # b /\ (a = None \/ b = None)

\* k1 < k2 on key tuples raises TypeError
KeyRaises(k1, k2) ==
    IF k1[1] # k2[1] THEN DimRaises(k1[1], k2[1])
    ELSE DimRaises(k1[2], k2[2])

\* k2 < k1 on key tuples that compare without raising
KeyGreater(k1, k2) ==
    IF k1[1] # k2[1] THEN k1[1].px > k2[1].px
    ELSE k1[2] # k2[2] /\ k1[2].px > k2[2].px

RECURSIVE InsertDesc(_, _)
\* x goes behind every element whose key is not smaller than its own
InsertDesc(sorted, x) ==
    IF sorted = <<>> THEN <<x>>
    ELSE IF KeyGreater(ThumbKey(x), ThumbKey(Head(sorted)))
    THEN <<x>> \o sorted
    ELSE <<Head(sorted)>> \o InsertDesc(Tail(sorted), x)

RECURSIVE SortedDesc(_)
\* sorted(thumbnails, key=..., reverse=True) on keys that compare: the sort
\* is stable, elements with equal keys keep their order
SortedDesc(thumbnails) ==
    IF thumbnails = <<>> THEN <<>>
    ELSE InsertDesc(SortedDesc(SubSeq(thumbnails, 1, Len(thumbnails) - 1)),
                    thumbnails[Len(thumbnails)])

\* _get_best_thumbnail(thumbnails). sorted() raises TypeError exactly when
\* two of the keys do not compare: to place them it has to compare them.
get_best_thumbnail(thumbnails) ==
    IF thumbnails = <<>> THEN ""
    ELSE IF \E i, j \in DOMAIN thumbnails :
               KeyRaises(ThumbKey(thumbnails[i]), ThumbKey(thumbnails[j]))
    THEN TypeError
    ELSE SortedDesc(thumbnails)[1].url

\* a variant of extract_info_sync: a failed extraction yields a record marked
\* unavailable instead of None
extract_info_sync_Placeholder(url, format_override, outcome) ==
    [id |-> url, available |-> outcome.kind = "info",
     computed_with |-> EffectiveFormat(format_override)]

\* _extract_info_sync(url, format_override); computed_with is the format the
\* external call ran with. An exception inside the try block, the TypeError
\* of _get_best_thumbnail included, is caught and None returned
extract_info_sync(url, format_override, outcome) ==
    IF outcome.kind = "info"
       /\ get_best_thumbnail(outcome.thumbnails) # TypeError
    THEN [id |-> url, available |-> TRUE,
          computed_with |-> EffectiveFormat(format_override),
          thumbnail |-> get_best_thumbnail(outcome.thumbnails)]
    ELSE None

\* a variant of search_sync: a search without results counts as failed
search_sync_EmptyFails(query, max_results, outcome) ==
    IF outcome.kind \in {"raise", "empty", "noentries"} THEN None
    ELSE LET videos == Truthy(Slice(outcome.entries, max_results))
         IN  IF videos = <<>> THEN None
             ELSE [videos |-> videos, total_count |-> Len(videos),
                   query |-> query]

\* _search_sync(query, max_results)
search_sync(query, max_results, outcome) ==
    IF outcome.kind = "raise" THEN None
    ELSE IF outcome.kind \in {"empty", "noentries"}
    THEN [videos |-> <<>>, total_count |-> 0, query |-> query]
    ELSE LET videos == Truthy(Slice(outcome.entries, max_results))
         IN  [videos |-> videos, total_count |-> Len(videos), query |-> query]

----------------------------------------------------------------------------
(* The handler coroutines *)

Routes == {"exception", "invalid", "hit", "stored", "failed"}

IdleReq == [pc |-> "idle", op |-> "none", arg |-> NoneStr,
            format |-> NoneStr, max_results |-> 0, cache_key |-> "",
            outcome |-> NoOutcome, result |-> None]

NoResponse == [op |-> "none", arg |-> NoneStr, format |-> NoneStr,
               cache_key |-> "", route |-> "none", status |-> 0,
               data |-> None]

InFlight == {r \in Slots : req[r].pc # "idle"}

\* requests answered so far
Answered ==
    log["exception"] + log["invalid"] + log["hit"] + log["stored"]
    + log["failed"]

\* requests received so far
Received == Answered + Cardinality(InFlight)

\* web.json_response(...): the coroutine rq in slot r ends
Send(r, rq, route, status, data) ==
    /\ req' = [req EXCEPT ![r] = IdleReq]
    /\ last' = [op |-> rq.op, arg |-> rq.arg, format |-> rq.format,
                cache_key |-> rq.cache_key, route |-> route,
                status |-> status, data |-> data]
    /\ log' = [log EXCEPT ![route] = @ + 1]

\* a variant of Submit: a request whose key another request in flight is
\* already fetching waits for that one and submits nothing
Submit_Coalesced(r, rq) ==
    /\ req' = [req EXCEPT ![r] = [rq EXCEPT !.pc = "queued"]]
    /\ queue' = IF \E p \in Slots : /\ req[p].pc # "idle"
                                    /\ req[p].cache_key = rq.cache_key
                THEN queue
                ELSE Append(queue, r)
    /\ UNCHANGED <<last, log>>

\* loop.run_in_executor(self.executor, ...): the coroutine rq in slot r
\* submits its work item and suspends
Submit(r, rq) ==
    /\ req' = [req EXCEPT ![r] = [rq EXCEPT !.pc = "queued"]]
    /\ queue' = Append(queue, r)
    /\ UNCHANGED <<last, log>>

\* a variant of CountRequest: the increment is lost
CountRequest_Lost == UNCHANGED request_count

\* self.request_count += 1
CountRequest == request_count' = request_count + 1

\* a variant of CountError: the increment is lost
CountError_Lost == UNCHANGED error_count

\* self.error_count += 1
CountError == error_count' = error_count + 1

\* a variant of CanReceive: the external call runs on the event loop, which
\* receives nothing while a call executes
CanReceive_LoopBusy(r) ==
    /\ req[r].pc = "idle"
    /\ \A p \in Slots : p < r => req[p].pc # "idle"
    /\ Received < MaxRequests
    /\ running = {}

\* a new request takes the lowest free slot
CanReceive(r) ==
    /\ req[r].pc = "idle"
    /\ \A p \in Slots : p < r => req[p].pc # "idle"
    /\ Received < MaxRequests

Init ==
    /\ cache = <<>>
    /\ request_count = 0
    /\ error_count = 0
    /\ now = 0
    /\ req = [r \in Slots |-> IdleReq]
    /\ queue = <<>>
    /\ running = {}
    /\ completed = <<>>
    /\ last = NoResponse
    /\ log = [x \in Routes |-> 0]
    /\ ext_calls = 0

\* extract_info, from the body parse to the response or to the
\* run_in_executor submission
extract_info(r, request) ==
    /\ CanReceive(r)
    /\ UNCHANGED <<cache, now, running, completed, ext_calls>>
    /\ LET rq == [IdleReq EXCEPT !.op = "extract"]
           data == request.data
       IN
       IF ~request.json_ok
       THEN \* request.json() raises: except Exception
            /\ CountError
            /\ Send(r, rq, "exception", 500, None)
            /\ UNCHANGED <<request_count, queue>>
       ELSE IF Falsy(data.url)
       THEN \* 'URL is required'
            /\ Send(r, [rq EXCEPT !.arg = data.url], "invalid", 400, None)
            /\ UNCHANGED <<request_count, error_count, queue>>
       ELSE LET cache_key == ExtractCacheKey(data)
                rk == [rq EXCEPT !.arg = data.url, !.format = data.format,
                                 !.cache_key = cache_key]
            IN  /\ CountRequest
                /\ UNCHANGED error_count
                /\ IF CacheHit(cache_key)
                   THEN /\ Send(r, rk, "hit", 200, cache[cache_key].data)
                        /\ UNCHANGED queue
                   ELSE Submit(r, rk)

\* search, from the body parse to the response or to the run_in_executor
\* submission
search(r, request) ==
    /\ CanReceive(r)
    /\ UNCHANGED <<cache, now, running, completed, ext_calls>>
    /\ LET rq == [IdleReq EXCEPT !.op = "search"]
           data == request.data
       IN
       IF ~request.json_ok
       THEN \* request.json() raises: except Exception
            /\ CountError
            /\ Send(r, rq, "exception", 500, None)
            /\ UNCHANGED <<request_count, queue>>
       ELSE IF Falsy(data.query)
       THEN \* 'Query is required'
            /\ Send(r, [rq EXCEPT !.arg = data.query], "invalid", 400, None)
            /\ UNCHANGED <<request_count, error_count, queue>>
       ELSE LET cache_key == SearchCacheKey(data)
                rk == [rq EXCEPT !.arg = data.query,
                                 !.max_results = MaxResultsOf(data),
                                 !.cache_key = cache_key]
            IN  /\ CountRequest
                /\ UNCHANGED error_count
                /\ IF CacheHit(cache_key)
                   THEN /\ Send(r, rk, "hit", 200, cache[cache_key].data)
                        /\ UNCHANGED queue
                   ELSE Submit(r, rk)

\* a variant of WorkerStart: an item starts whether or not a worker is free
WorkerStart_Unbounded(r) ==
    /\ queue # <<>>
    /\ r = Head(queue)
    /\ queue' = Tail(queue)
    /\ running' = running \cup {r}
    /\ req' = [req EXCEPT ![r].pc = "running"]
    /\ UNCHANGED <<cache, request_count, error_count, now, completed, last,
                   log, ext_calls>>

\* a variant of WorkerStart: a free worker thread takes the newest work item
WorkerStart_Newest(r) ==
    /\ queue # <<>>
    /\ r = queue[Len(queue)]
    /\ Cardinality(running) < max_workers
    /\ queue' = SubSeq(queue, 1, Len(queue) - 1)
    /\ running' = running \cup {r}
    /\ req' = [req EXCEPT ![r].pc = "running"]
    /\ UNCHANGED <<cache, request_count, error_count, now, completed, last,
                   log, ext_calls>>

\* ThreadPoolExecutor(max_workers): a free worker thread takes the oldest
\* work item
WorkerStart(r) ==
    /\ queue # <<>>
    /\ r = Head(queue)
    /\ Cardinality(running) < max_workers
    /\ queue' = Tail(queue)
    /\ running' = running \cup {r}
    /\ req' = [req EXCEPT ![r].pc = "running"]
    /\ UNCHANGED <<cache, request_count, error_count, now, completed, last,
                   log, ext_calls>>

\* a worker thread runs _extract_info_sync to its return; the event loop is
\* told of the completions in the order they happen
ExtractWorker(r, outcome) ==
    /\ r \in running
    /\ req[r].op = "extract"
    /\ running' = running \ {r}
    /\ completed' = Append(completed, r)
    /\ ext_calls' = ext_calls + 1
    /\ req' = [req EXCEPT ![r].pc = "returned",
                          ![r].outcome = outcome,
                          ![r].result = extract_info_sync(req[r].arg,
                                            req[r].format, outcome)]
    /\ UNCHANGED <<cache, request_count, error_count, now, queue, last, log>>

\* a worker thread runs _search_sync to its return
SearchWorker(r, outcome) ==
    /\ r \in running
    /\ req[r].op = "search"
    /\ running' = running \ {r}
    /\ completed' = Append(completed, r)
    /\ ext_calls' = ext_calls + 1
    /\ req' = [req EXCEPT ![r].pc = "returned",
                          ![r].outcome = outcome,
                          ![r].result = search_sync(req[r].arg,
                                            req[r].max_results, outcome)]
    /\ UNCHANGED <<cache, request_count, error_count, now, queue, last, log>>

\* a variant of ExtractResume: the coroutine of a failed extraction is never
\* resumed
ExtractResume_SuccessOnly(r) ==
    /\ completed # <<>>
    /\ r = Head(completed)
    /\ req[r].op = "extract"
    /\ req[r].result # None
    /\ completed' = Tail(completed)
    /\ cache' = CacheSet(req[r].cache_key, req[r].result)
    /\ Send(r, req[r], "stored", 200, req[r].result)
    /\ UNCHANGED <<request_count, error_count, now, queue, running,
                   ext_calls>>

\* extract_info after the await: `if info:` ... else 404
ExtractResume(r) ==
    /\ completed # <<>>
    /\ r = Head(completed)
    /\ req[r].op = "extract"
    /\ completed' = Tail(completed)
    /\ IF req[r].result # None
       THEN /\ cache' = CacheSet(req[r].cache_key, req[r].result)
            /\ Send(r, req[r], "stored", 200, req[r].result)
            /\ UNCHANGED error_count
       ELSE /\ CountError
            /\ Send(r, req[r], "failed", 404, None)
            /\ UNCHANGED cache
    /\ UNCHANGED <<request_count, now, queue, running, ext_calls>>

\* search after the await: `if results is not None:` ... else 500
SearchResume(r) ==
    /\ completed # <<>>
    /\ r = Head(completed)
    /\ req[r].op = "search"
    /\ completed' = Tail(completed)
    /\ IF req[r].result # None
       THEN /\ cache' = CacheSet(req[r].cache_key, req[r].result)
            /\ Send(r, req[r], "stored", 200, req[r].result)
            /\ UNCHANGED error_count
       ELSE /\ CountError
            /\ Send(r, req[r], "failed", 500, None)
            /\ UNCHANGED cache
    /\ UNCHANGED <<request_count, now, queue, running, ext_calls>>

\* health_check: the counters are read into the report; nothing is awaited
\* and nothing of the service is written
health_check == UNCHANGED vars

\* a variant of clear_cache: only the expired entries are dropped
clear_cache_ExpiredOnly ==
    /\ cache' = [k \in {x \in DOMAIN cache : IsFresh(cache[x])} |-> cache[k]]
    /\ last' = [NoResponse EXCEPT !.op = "clear_cache", !.route = "cleared",
                                  !.status = 200]
    /\ UNCHANGED <<request_count, error_count, now, req, queue, running,
                   completed, log, ext_calls>>

\* a variant of clear_cache: the requests in flight are cancelled with it
clear_cache_Cancelling ==
    /\ cache' = <<>>
    /\ last' = [NoResponse EXCEPT !.op = "clear_cache", !.route = "cleared",
                                  !.status = 200]
    /\ req' = [r \in Slots |-> IdleReq]
    /\ queue' = <<>>
    /\ running' = {}
    /\ completed' = <<>>
    /\ UNCHANGED <<request_count, error_count, now, log, ext_calls>>

\* clear_cache: self.cache.clear(), 'Cache cleared successfully'
clear_cache ==
    /\ cache' = <<>>
    /\ last' = [NoResponse EXCEPT !.op = "clear_cache", !.route = "cleared",
                                  !.status = 200]
    /\ UNCHANGED <<request_count, error_count, now, req, queue, running,
                   completed, log, ext_calls>>

\* a variant of cleanup_cache: an entry is dropped as soon as its age
\* reaches cache_ttl
cleanup_cache_AtTtl ==
    /\ LET expired_keys ==
              {k \in DOMAIN cache : now - cache[k].timestamp >= cache_ttl}
       IN  /\ cache' = [k \in DOMAIN cache \ expired_keys |-> cache[k]]
           /\ last' = IF expired_keys # {}
                      THEN [NoResponse EXCEPT
                              !.op = "cleanup_cache", !.route = "cleaned",
                              !.status = Cardinality(expired_keys)]
                      ELSE last
    /\ UNCHANGED <<request_count, error_count, now, req, queue, running,
                   completed, log, ext_calls>>

\* cleanup_cache: delete the entries with now - timestamp > cache_ttl and,
\* if there were any, log 'Cleaned up N expired cache entries'
cleanup_cache ==
    /\ LET expired_keys ==
              {k \in DOMAIN cache : now - cache[k].timestamp > cache_ttl}
       IN  /\ cache' = [k \in DOMAIN cache \ expired_keys |-> cache[k]]
           /\ last' = IF expired_keys # {}
                      THEN [NoResponse EXCEPT
                              !.op = "cleanup_cache", !.route = "cleaned",
                              !.status = Cardinality(expired_keys)]
                      ELSE last
    /\ UNCHANGED <<request_count, error_count, now, req, queue, running,
                   completed, log, ext_calls>>

\* time passes
Tick ==
    /\ now < MaxTime
    /\ now' = now + 1
    /\ UNCHANGED <<cache, request_count, error_count, req, queue, running,
                   completed, last, log, ext_calls>>

Next ==
    \/ \E r \in Slots :
          \E request \in Parsed(ExtractBodies) \cup Malformed(ExtractBodies) :
             extract_info(r, request)
    \/ \E r \in Slots :
          \E request \in Parsed(SearchBodies) \cup Malformed(SearchBodies) :
             search(r, request)
    \/ \E r \in Slots : WorkerStart(r)
    \/ \E r \in Slots, outcome \in ExtractOutcomes : ExtractWorker(r, outcome)
    \/ \E r \in Slots, outcome \in SearchOutcomes : SearchWorker(r, outcome)
    \/ \E r \in Slots : ExtractResume(r)
    \/ \E r \in Slots : SearchResume(r)
    \/ health_check
    \/ clear_cache
    \/ cleanup_cache
    \/ Tick

Spec == Init /\ [][Next]_vars

TypeOK ==
    /\ request_count \in 0..MaxRequests
    /\ error_count \in 0..MaxRequests
    /\ now \in 0..MaxTime
    /\ running \subseteq Slots
    /\ ext_calls \in 0..MaxRequests
    /\ \A k \in DOMAIN cache : cache[k].timestamp \in 0..now

----------------------------------------------------------------------------
(* Vocabulary of the properties *)

\* this step sends the response of a Resolve or Search request; last' is it
Sent == Answered' = Answered + 1

\* this step suspends the coroutine in slot r on run_in_executor
Dispatched(r) == req[r].pc = "idle" /\ req'[r].pc = "queued"

\* this step resumes the coroutine in slot r and sends its response
Resumed(r) ==
    /\ completed # <<>>
    /\ r = Head(completed)
    /\ req'[r].pc = "idle"

Age(key) == now - cache[key].timestamp

\* work items handed to the executor so far
Submissions == ext_calls + Len(queue) + Cardinality(running)

\* requests that found no fresh entry so far
Misses == log["stored"] + log["failed"] + Cardinality(InFlight)

----------------------------------------------------------------------------
(* C1 *)

\* C1: a Resolve or Search request that passes validation is either answered
\* from a cache entry whose age is at most the TTL, or it is handed to the
\* worker pool; it is never answered from an entry older than the TTL, swept
\* or not.
C1_NoExpiredHit ==
    [][request_count' = request_count + 1 =>
         \/ /\ Sent
            /\ last'.route = "hit"
            /\ last'.cache_key \in DOMAIN cache
            /\ ~(Age(last'.cache_key) > cache_ttl)
            /\ last'.data = cache[last'.cache_key].data
         \/ /\ ~Sent
            /\ \E r \in Slots : Dispatched(r) /\ queue' = Append(queue, r)]_vars

\* an expired entry the sweep has not removed, and a request for its key
\* waiting for a worker
C1_Witness ==
    \E r \in Slots :
        /\ req[r].pc = "queued"
        /\ req[r].cache_key \in DOMAIN cache
        /\ Age(req[r].cache_key) > cache_ttl

----------------------------------------------------------------------------
(* C2 *)

\* C2: a Resolve that missed and succeeded stores its result with the current
\* time; a Resolve of a locator whose entry was stored at the current time is
\* not dispatched, and a hit returns the stored value and hands nothing to
\* the executor; every miss has handed over exactly one work item.
C2_ImmediateHit ==
    [][/\ \A r \in Slots :
            Resumed(r) /\ req[r].op = "extract" /\ last'.route = "stored" =>
               /\ req[r].cache_key \in DOMAIN cache'
               /\ cache'[req[r].cache_key] =
                     [data |-> req[r].result, timestamp |-> now]
               /\ last'.data = req[r].result
       /\ \A r \in Slots :
            Dispatched(r) /\ req'[r].op = "extract" =>
               ~(/\ req'[r].cache_key \in DOMAIN cache
                 /\ cache[req'[r].cache_key].timestamp = now)
       /\ Sent /\ last'.route = "hit" =>
               /\ last'.data = cache[last'.cache_key].data
               /\ UNCHANGED <<queue, running, completed, ext_calls, cache>>
       /\ Submissions' = Misses']_vars

\* one Resolve stored its result, the next one was answered from it at the
\* same instant, and one external call was made in all
C2_Witness ==
    /\ last.op = "extract"
    /\ last.route = "hit"
    /\ last.cache_key \in DOMAIN cache
    /\ cache[last.cache_key].timestamp = now
    /\ last.data = cache[last.cache_key].data
    /\ log["stored"] = 1
    /\ log["hit"] = 1
    /\ Submissions = 1

----------------------------------------------------------------------------
(* C3 *)

\* C3: at most max_workers external calls execute at the same time.
C3_DispatcherBounded == Cardinality(running) <= max_workers

\* every worker is busy and a further work item waits
C3_Witness == Cardinality(running) = max_workers /\ queue # <<>>

----------------------------------------------------------------------------
(* C4 *)

\* C4 as stated: after k Resolve and Search invocations the request counter
\* is k.
C4_CountsEveryInvocation == request_count = Received

\* C4, amended: the request counter is the number of invocations that passed
\* validation (the body parsed and the locator or query was not empty); an
\* invocation answered 400, or one whose body did not parse, is not counted.
C4_CountsValidInvocations ==
    request_count = Received - log["invalid"] - log["exception"]

\* two invocations, one of them rejected by validation, and a counter of 1
C4_Witness == Received = 2 /\ log["invalid"] = 1 /\ request_count = 1

----------------------------------------------------------------------------
(* C5 *)

\* C5 as stated: the error counter is the number of invocations that returned
\* an error, validation failures included.
C5_CountsEveryError ==
    error_count = log["invalid"] + log["exception"] + log["failed"]

\* C5, amended: the error counter is the number of invocations that ended in
\* an external failure, an empty Resolve result or an exception; successes
\* and validation failures (400) leave it unchanged.
C5_CountsFailuresButNotValidation ==
    [][/\ error_count' = log'["exception"] + log'["failed"]
       /\ Sent /\ last'.route \in {"hit", "stored", "invalid"}
             => error_count' = error_count
       /\ Sent /\ last'.route \in {"exception", "failed"}
             => error_count' = error_count + 1]_vars

\* a validation failure and an external failure, and an error counter of 1
C5_Witness == log["invalid"] = 1 /\ log["failed"] = 1 /\ error_count = 1

----------------------------------------------------------------------------
(* C6 *)

EmptyOrMissing(x) == x \in {NoneStr, ""}

\* C6: a Resolve with an empty or missing locator and a Search with an empty
\* or missing query are answered 400 with no data in the step that receives
\* them: no work item is submitted, the cache is left as it was, and no
\* request with such an argument is ever in flight.
C6_ValidationFailure ==
    [][/\ Sent /\ last'.route = "invalid" =>
            /\ last'.status = 400
            /\ last'.data = None
            /\ EmptyOrMissing(last'.arg)
            /\ UNCHANGED <<cache, queue, running, completed, ext_calls>>
       /\ Sent /\ last'.route \in {"hit", "stored", "failed"} =>
            ~EmptyOrMissing(last'.arg)
       /\ \A r \in Slots :
            req'[r].pc # "idle" => ~EmptyOrMissing(req'[r].arg)]_vars

\* a request with an empty argument was rejected while the cache held an entry
C6_Witness ==
    /\ last.route = "invalid"
    /\ last.arg = ""
    /\ last.status = 400
    /\ cache # <<>>

----------------------------------------------------------------------------
(* C7 *)

\* C7: when the external Resolve call raised or returned nothing, the request
\* is answered 404, the error counter goes up by one and the cache is left as
\* it was by every step of the request; no entry ever holds a failure.
C7_ResolveFailure ==
    [][/\ \A r \in Slots :
            /\ Resumed(r)
            /\ req[r].op = "extract"
            /\ req[r].outcome.kind \in {"raise", "empty"}
            => /\ last'.status = 404
               /\ last'.route = "failed"
               /\ error_count' = error_count + 1
               /\ cache' = cache
       /\ \A r \in Slots :
            /\ req[r].op = "extract" \/ req'[r].op = "extract"
            /\ req'[r] # req[r]
            /\ ~(Resumed(r) /\ req[r].outcome.kind = "info")
            => cache' = cache
       /\ \A k \in DOMAIN cache' : cache'[k].data # None]_vars

\* a Resolve was answered 404 and its key is absent from the cache
C7_Witness ==
    /\ last.op = "extract"
    /\ last.route = "failed"
    /\ last.status = 404
    /\ last.cache_key \notin DOMAIN cache
    /\ error_count = 1

----------------------------------------------------------------------------
(* C8 *)

NoEntries(outcome) ==
    \/ outcome.kind \in {"empty", "noentries"}
    \/ outcome.kind = "entries" /\ outcome.entries = <<>>

\* C8: when the external Search call failed, the request is answered 500, the
\* error counter goes up by one and nothing is stored; when it returned no
\* entries, the request is answered 200 with no videos and total_count 0, the
\* error counter is unchanged and that result is stored; a Search whose key
\* has an entry younger than the TTL is answered from it.
C8_SearchFailureAndEmpty ==
    [][/\ \A r \in Slots :
            Resumed(r) /\ req[r].op = "search" /\ req[r].outcome.kind = "raise"
            => /\ last'.status = 500
               /\ last'.route = "failed"
               /\ error_count' = error_count + 1
               /\ cache' = cache
       /\ \A r \in Slots :
            Resumed(r) /\ req[r].op = "search" /\ NoEntries(req[r].outcome)
            => /\ last'.status = 200
               /\ last'.data.videos = <<>>
               /\ last'.data.total_count = 0
               /\ error_count' = error_count
               /\ req[r].cache_key \in DOMAIN cache'
               /\ cache'[req[r].cache_key] =
                     [data |-> last'.data, timestamp |-> now]
       /\ \A r \in Slots :
            Dispatched(r) /\ req'[r].op = "search" =>
               ~(/\ req'[r].cache_key \in DOMAIN cache
                 /\ Age(req'[r].cache_key) < cache_ttl)
       /\ Sent /\ last'.op = "search" /\ last'.route = "hit" =>
               last'.data = cache[last'.cache_key].data]_vars

\* a Search was answered from a stored result without videos
C8_Witness ==
    /\ last.op = "search"
    /\ last.route = "hit"
    /\ last.status = 200
    /\ last.data.videos = <<>>
    /\ last.data.total_count = 0
    /\ error_count = 0

----------------------------------------------------------------------------
(* C9 *)

\* C9: the work items handed to the executor are as many as the requests
\* that missed, and every request in flight has a work item of its own:
\* waiting, executing or returned.
C9_NoCoalescing ==
    /\ Submissions = Misses
    /\ \A r \in InFlight :
          \/ req[r].pc = "queued" /\ \E i \in DOMAIN queue : queue[i] = r
          \/ req[r].pc = "running" /\ r \in running
          \/ req[r].pc = "returned"
                /\ \E i \in DOMAIN completed : completed[i] = r

\* two requests for one key missed, and the external call was made for each
\* before either stored its result
C9_Witness ==
    \E r1, r2 \in Slots :
        /\ r1 # r2
        /\ req[r1].pc = "returned"
        /\ req[r2].pc = "returned"
        /\ req[r1].cache_key = req[r2].cache_key
        /\ ext_calls = 2

----------------------------------------------------------------------------
(* C10 *)

IsResolveEntry(k) == "computed_with" \in DOMAIN cache[k].data

\* C10: a Resolve of a locator for which the cache holds an entry younger
\* than the TTL is not dispatched, whatever its format override; it is
\* answered with the stored value and no external call is made for it.
C10_FormatNotInKey ==
    [][/\ \A r \in Slots :
            Dispatched(r) /\ req'[r].op = "extract" =>
               ~\E k \in DOMAIN cache :
                   /\ IsResolveEntry(k)
                   /\ cache[k].data.id = req'[r].arg
                   /\ Age(k) < cache_ttl
       /\ Sent /\ last'.op = "extract" /\ last'.route = "hit" =>
            /\ last'.data = cache[last'.cache_key].data
            /\ last'.data.id = last'.arg
            /\ UNCHANGED <<queue, running, completed, ext_calls, cache>>]_vars

\* a Resolve was answered with a value computed under another format than
\* the one it asked for
C10_Witness ==
    /\ last.op = "extract"
    /\ last.route = "hit"
    /\ last.format = "f1"
    /\ last.data.computed_with # EffectiveFormat(last.format)

----------------------------------------------------------------------------
(* C11 *)

\* C11: clear_cache can always be taken and answers 200; in the state it
\* leaves, and until the next response, the cache is empty, so that no
\* Resolve or Search received then is answered from the cache, whatever
\* key it asks for; and clearing again changes nothing
C11_ClearCacheEmptiesAtOnce ==
    /\ ENABLED clear_cache
    /\ last.route = "cleared" =>
          /\ last.status = 200
          /\ cache = <<>>
          /\ \A r \in Slots :
                /\ \A request \in Parsed(ExtractBodies) :
                      ~ENABLED (extract_info(r, request) /\ last'.route = "hit")
                /\ \A request \in Parsed(SearchBodies) :
                      ~ENABLED (search(r, request) /\ last'.route = "hit")
          /\ ~ENABLED (clear_cache /\ vars' # vars)

\* a result was stored, the response of clear_cache is the last one sent,
\* and a request is in flight
C11_Witness ==
    /\ last.route = "cleared"
    /\ log["stored"] >= 1
    /\ InFlight # {}

----------------------------------------------------------------------------
(* C12 *)

\* what a request for key finds in the cache c at time t: the stored data
\* on a hit, None on a miss
LookupAt(c, key, t) ==
    IF key \in DOMAIN c /\ t - c[key].timestamp < cache_ttl
    THEN c[key].data
    ELSE None

\* this step is a sweep that removed something
Swept == last'.route = "cleaned" /\ cache' # cache

\* C12: a sweep removes the entries older than the TTL, all of them and
\* no other, and leaves the rest as they were; and it is invisible to the
\* requests: whatever key a request asks for, now or at any later time, it
\* finds in the swept cache what it would have found had the sweep not run
C12_SweepIsInvisible ==
    [][ Swept =>
          /\ DOMAIN cache' = {k \in DOMAIN cache : ~(Age(k) > cache_ttl)}
          /\ \A k \in DOMAIN cache' : cache'[k] = cache[k]
          /\ \A k \in DOMAIN cache : \A t \in now..(MaxTime + 1) :
                LookupAt(cache', k, t) = LookupAt(cache, k, t)
          /\ UNCHANGED <<request_count, error_count, now, req, queue,
                         running, completed, log, ext_calls>>
      ]_vars

\* a sweep has removed an entry and kept one whose age is exactly the TTL
C12_Witness ==
    /\ last.route = "cleaned"
    /\ \E k \in DOMAIN cache : Age(k) = cache_ttl

----------------------------------------------------------------------------
(* C13 *)

\* every worker thread is executing an external call
AllWorkersBusy == Cardinality(running) = max_workers

\* one more request can be received within the bounds of the model
RoomForRequest ==
    /\ Received < MaxRequests
    /\ \E r \in Slots : req[r].pc = "idle"

\* the handler answers request at once with a response of the route
ExtractAnswers(request, route) ==
    \E r \in Slots : ENABLED (extract_info(r, request) /\ last'.route = route)

SearchAnswers(request, route) ==
    \E r \in Slots : ENABLED (search(r, request) /\ last'.route = route)

----------------------------------------------------------------------------
(* C14: _search_sync as a function of the limit and of what yt-dlp returns *)

MaxLimit == 3
MaxRawEntries == 3

\* max_results, a count
LimitInputs == 0..MaxLimit

\* an entry of search_results['entries']: None, an empty dict, or a video
RawEntryValues == {NoneStr, "", "v1", "v2"}

RawEntryLists == UNION {[1..n -> RawEntryValues] : n \in 0..MaxRawEntries}

RawSearchResults ==
    {[kind |-> k, entries |-> <<>>] : k \in {"raise", "empty", "noentries"}}
    \cup {[kind |-> "entries", entries |-> e] : e \in RawEntryLists}

\* a Search with limit n that missed the cache; its work item is running
InitSearchSync ==
    /\ cache = <<>>
    /\ request_count = 1
    /\ error_count = 0
    /\ now = 0
    /\ \E n \in LimitInputs :
          req = [r \in Slots |->
                   IF r = 1
                   THEN [IdleReq EXCEPT
                           !.pc = "running", !.op = "search", !.arg = "a",
                           !.max_results = n,
                           !.cache_key = "search:a:" \o ToString(n)]
                   ELSE IdleReq]
    /\ queue = <<>>
    /\ running = {1}
    /\ completed = <<>>
    /\ last = NoResponse
    /\ log = [x \in Routes |-> 0]
    /\ ext_calls = 0

NextSearchSync == \E outcome \in RawSearchResults : SearchWorker(1, outcome)

SpecSearchSync == InitSearchSync /\ [][NextSearchSync]_vars

\* the positions of the raw list that are within the limit and hold a video
KeptPositions(entries, limit) ==
    {i \in 1..Len(entries) : i <= limit /\ entries[i] \notin {NoneStr, ""}}

\* the j-th smallest element of a set of positions
NthPosition(positions, j) ==
    CHOOSE i \in positions : Cardinality({x \in positions : x <= i}) = j

\* C14: whenever the external search did not raise, _search_sync returns a
\* result, not an error; its videos are the non-empty entries found among
\* the first `limit` raw entries, in their raw order, and nothing else, hence
\* at most `limit` of them; total_count is the length of videos; and a raw
\* result without entries gives no videos and total_count 0
C14_NormalizeSearch ==
    \A r \in Slots :
       /\ req[r].pc = "returned"
       /\ req[r].op = "search"
       /\ req[r].outcome.kind # "raise"
       => LET entries == req[r].outcome.entries
              limit == req[r].max_results
              kept == KeptPositions(entries, limit)
              result == req[r].result
          IN  /\ result # None
              /\ Len(result.videos) = Cardinality(kept)
              /\ \A j \in 1..Len(result.videos) :
                    result.videos[j] = entries[NthPosition(kept, j)]
              /\ Len(result.videos) <= limit
              /\ result.total_count = Len(result.videos)
              /\ entries = <<>> =>
                    result.videos = <<>> /\ result.total_count = 0

\* a raw list longer than the limit, with an empty entry and a video
\* within the limit and another video beyond it
C14_Witness ==
    \E r \in Slots :
       /\ req[r].pc = "returned"
       /\ req[r].max_results = 2
       /\ req[r].outcome.entries = <<NoneStr, "v1", "v2">>
       /\ req[r].result # None
       /\ req[r].result.videos = <<"v1">>

----------------------------------------------------------------------------
(* C15: _get_best_thumbnail as a function of info['thumbnails'] *)

MaxThumbnails == 3

WidthValues == {Absent, None, Px(120), Px(640)}
HeightValues == {Absent, None, Px(90), Px(360), Px(480)}

\* the lists of up to MaxThumbnails candidates; the i-th one has url "u<i>"
ThumbnailLists ==
    UNION {[1..n -> [width : WidthValues, height : HeightValues]] :
             n \in 0..MaxThumbnails}

WithUrls(dims) ==
    [i \in DOMAIN dims |->
        [url |-> "u" \o ToString(i), width |-> dims[i].width,
         height |-> dims[i].height]]

ThumbnailOutcomes ==
    {[kind |-> "info", entries |-> <<>>, thumbnails |-> WithUrls(dims)] :
        dims \in ThumbnailLists}

\* a Resolve that missed the cache; its work item is running
InitBestThumbnail ==
    /\ cache = <<>>
    /\ request_count = 1
    /\ error_count = 0
    /\ now = 0
    /\ req = [r \in Slots |->
                IF r = 1
                THEN [IdleReq EXCEPT
                        !.pc = "running", !.op = "extract", !.arg = "a",
                        !.cache_key = "extract:a"]
                ELSE IdleReq]
    /\ queue = <<>>
    /\ running = {1}
    /\ completed = <<>>
    /\ last = NoResponse
    /\ log = [x \in Routes |-> 0]
    /\ ext_calls = 0

NextBestThumbnail ==
    \E outcome \in ThumbnailOutcomes : ExtractWorker(1, outcome)

SpecBestThumbnail == InitBestThumbnail /\ [][NextBestThumbnail]_vars

\* the size of a candidate as a pair of numbers, where it has one
HasSize(x) == x.width \notin {Absent, None} /\ x.height \notin {Absent, None}

\* (w1, h1) > (w2, h2) in lexicographic order
LexGreater(x, y) ==
    \/ x.width.px > y.width.px
    \/ x.width.px = y.width.px /\ x.height.px > y.height.px

\* C15: for every list of candidates the extraction yields a thumbnail URL,
\* never null: "" for the empty list, and for a non-empty list whose
\* candidates have a size the URL of the first candidate of the list that
\* no other one exceeds in (width, height)
C15_BestThumbnail ==
    \A r \in Slots :
       /\ req[r].pc = "returned"
       /\ req[r].op = "extract"
       /\ req[r].outcome.kind = "info"
       => LET thumbnails == req[r].outcome.thumbnails
          IN  /\ req[r].result # None
              /\ thumbnails = <<>> => req[r].result.thumbnail = ""
              /\ /\ thumbnails # <<>>
                 /\ \A i \in DOMAIN thumbnails : HasSize(thumbnails[i])
                 => \E i \in DOMAIN thumbnails :
                       /\ req[r].result.thumbnail = thumbnails[i].url
                       /\ \A j \in DOMAIN thumbnails :
                             ~LexGreater(thumbnails[j], thumbnails[i])
                       /\ \A j \in DOMAIN thumbnails :
                             j < i => LexGreater(thumbnails[i], thumbnails[j])

----------------------------------------------------------------------------
(* C16 *)

\* the external call of the request in slot r returns in this step
Completes(r) == req[r].pc = "running" /\ req'[r].pc = "returned"

\* the coroutine in slot r, its external call returned, resumes in this step
Resumes(r) == req[r].pc = "returned" /\ req'[r].pc = "idle"

\* where x stands in the sequence s
PositionIn(s, x) == CHOOSE i \in 1..Len(s) : s[i] = x

----------------------------------------------------------------------------
(* C17 *)

\* a worker thread starts the work item of slot r in this step
Starts(r) == req[r].pc = "queued" /\ req'[r].pc = "running"

\* C17: a work item submitted while others wait is placed behind all of
\* them; an item starts only when a worker is free, and the one that starts
\* was submitted before every item that keeps waiting, so no submission
\* overtakes an earlier one that is still waiting
C17_FifoAdmission ==
    [][ \A r \in Slots :
          /\ Dispatched(r) =>
                \A p \in Slots : req[p].pc = "queued" =>
                   /\ req'[p].pc = "queued"
                   /\ PositionIn(queue', p) < PositionIn(queue', r)
          /\ Starts(r) =>
                /\ Cardinality(running) < max_workers
                /\ \A p \in Slots \ {r} : req[p].pc = "queued" =>
                      /\ req'[p].pc = "queued"
                      /\ PositionIn(queue, r) < PositionIn(queue, p)
                      /\ queue' = SelectSeq(queue, LAMBDA x : x # r)
      ]_vars

\* more work items than workers were submitted before any call returned:
\* the first one runs, the one submitted after it waits
C17_Witness ==
    \E r, p \in Slots :
       /\ r < p
       /\ running = {r}
       /\ queue = <<p>>
       /\ ext_calls = 0
       /\ Answered = 0

----------------------------------------------------------------------------
(* C18 *)

\* the steps of the handlers, of the executor and of the event loop at one
\* reading of the clock. The passing of time and the sweep take no part in
\* the progress of a request: they only decide which requests hit.
NextRequests ==
    \/ \E r \in Slots :
          \E request \in Parsed(ExtractBodies) \cup Malformed(ExtractBodies) :
             extract_info(r, request)
    \/ \E r \in Slots :
          \E request \in Parsed(SearchBodies) \cup Malformed(SearchBodies) :
             search(r, request)
    \/ \E r \in Slots : WorkerStart(r)
    \/ \E r \in Slots, outcome \in ExtractOutcomes : ExtractWorker(r, outcome)
    \/ \E r \in Slots, outcome \in SearchOutcomes : SearchWorker(r, outcome)
    \/ \E r \in Slots : ExtractResume(r)
    \/ \E r \in Slots : SearchResume(r)
    \/ health_check
    \/ clear_cache

\* the scheduling the claim assumes: a free worker thread takes the oldest
\* waiting item, an external call that has started returns or raises, and
\* the event loop resumes a coroutine whose call has returned
FairSpec ==
    /\ Init
    /\ [][NextRequests]_vars
    /\ \A r \in Slots :
          /\ WF_vars(WorkerStart(r))
          /\ WF_vars(\E outcome \in ExtractOutcomes : ExtractWorker(r, outcome))
          /\ WF_vars(\E outcome \in SearchOutcomes : SearchWorker(r, outcome))
          /\ WF_vars(ExtractResume(r))
          /\ WF_vars(SearchResume(r))

\* the steps of the state machine of one request
RequestSteps ==
    {<<"idle", "queued">>, <<"queued", "running">>,
     <<"running", "returned">>, <<"returned", "idle">>}

\* C18: a request moves only along received -> dispatched -> running ->
\* returned -> answered, or is answered in the step that receives it; the
\* step that ends a dispatched request sends exactly one response, the
\* stored result if the normalization gave one and the failure otherwise,
\* and a failed request leaves the cache alone; and every request in flight
\* is eventually answered, whatever happens to the other requests
C18_EveryRequestTerminates ==
    /\ [][ /\ Answered' \in {Answered, Answered + 1}
           /\ \A r \in Slots :
                 /\ req'[r].pc # req[r].pc =>
                       <<req[r].pc, req'[r].pc>> \in RequestSteps
                 /\ Resumes(r) =>
                       /\ Sent
                       /\ last'.cache_key = req[r].cache_key
                       /\ req[r].result # None =>
                             /\ last'.route = "stored"
                             /\ last'.status = 200
                       /\ req[r].result = None =>
                             /\ last'.route = "failed"
                             /\ last'.status \in {404, 500}
                             /\ cache' = cache
                       /\ req[r].outcome.kind = "raise" =>
                             last'.route = "failed"
         ]_vars
    /\ \A r \in Slots : (req[r].pc # "idle") ~> (req[r].pc = "idle")

\* a request has been answered with its failure while another one, whose
\* external call succeeded, is still on its way to its response
C18_Witness ==
    /\ last.route = "failed"
    /\ \E p \in Slots : req[p].pc = "returned" /\ req[p].result # None

----------------------------------------------------------------------------
(* C19: the cache keys as a function of the request bodies *)

\* locators and queries that contain ':' or the text of a key prefix
KeyUrlInputs == {"a", "a:1", "search:a:1", "search:a:10", "extract:a"}
KeyQueryInputs == {"a", "a1", "a:1", ":", "extract:a", "search:a"}
KeyLimitInputs == {-1, 1, 10, 11}

KeyExtractBodies == [url : KeyUrlInputs, format : {NoneStr}]
KeySearchBodies ==
    [query : KeyQueryInputs, has_max_results : {TRUE},
     max_results : KeyLimitInputs]
    \cup [query : KeyQueryInputs, has_max_results : {FALSE},
          max_results : {0}]

\* requests are received on an empty cache: each one computes its key,
\* misses and is dispatched
NextCacheKeys ==
    \/ \E r \in Slots : \E request \in Parsed(KeyExtractBodies) :
          extract_info(r, request)
    \/ \E r \in Slots : \E request \in Parsed(KeySearchBodies) :
          search(r, request)

SpecCacheKeys == Init /\ [][NextCacheKeys]_vars

\* C19: two requests use the same cache key only if they are the same
\* operation on the same locator, or on the same query with the same limit;
\* so a Resolve and a Search never address the same entry, and neither do
\* two Searches that differ in the query or in the limit
C19_KeysDoNotCollide ==
    \A r1, r2 \in Slots :
       /\ req[r1].pc # "idle"
       /\ req[r2].pc # "idle"
       /\ req[r1].cache_key = req[r2].cache_key
       => /\ req[r1].op = req[r2].op
          /\ req[r1].arg = req[r2].arg
          /\ req[r1].max_results = req[r2].max_results

\* a Resolve whose locator reads like the key of a Search that is in flight
\* with it
C19_Witness ==
    \E r1, r2 \in Slots :
       /\ req[r1].op = "extract"
       /\ req[r1].arg = "search:a:1"
       /\ req[r2].op = "search"
       /\ req[r2].cache_key = "search:a:1"
       /\ req[r1].cache_key # req[r2].cache_key

----------------------------------------------------------------------------
(* C20 *)

\* this step sends the response of clear_cache after some other response
Cleared == last'.route = "cleared" /\ last.route # "cleared"

\* C20: clear_cache leaves the requests in flight, the executor's queue and
\* its running and returned work items as they are; and a request whose
\* external call gave a result stores it when it resumes, whether or not
\* the cache was cleared since the request was dispatched
C20_ClearKeepsInFlightWork ==
    [][ /\ Cleared =>
              /\ cache' = <<>>
              /\ UNCHANGED <<req, queue, running, completed>>
        /\ \A r \in Slots :
              Resumes(r) /\ req[r].result # None =>
                 /\ req[r].cache_key \in DOMAIN cache'
                 /\ cache'[req[r].cache_key].data = req[r].result
                 /\ last'.route = "stored"
                 /\ last'.data = req[r].result
      ]_vars

\* the response of clear_cache is the last one sent and the cache is empty,
\* a request is in flight with the result of its external call, and its
\* next step puts that result into the cache
C20_Witness ==
    /\ last.route = "cleared"
    /\ cache = <<>>
    /\ \E r \in Slots :
          /\ req[r].pc = "returned"
          /\ req[r].result # None
          /\ ENABLED (/\ ExtractResume(r) \/ SearchResume(r)
                      /\ req[r].cache_key \in DOMAIN cache')

====
